---- MODULE Spec2Model ----
(***************************************************************************)
(* Model of fracmd (src/main.rs): the per-pixel escape-time pipeline       *)
(* (Renderer::pixel) and the parallel renderer (Renderer::render) as run   *)
(* from main on a rayon pool of args.threads worker threads.               *)
(*                                                                         *)
(* f32 values are modelled as exact rationals n/d, with 1/0 for +inf,      *)
(* -1/0 for -inf and 0/0 for NaN.  The configurations enumerated in        *)
(* Configs only produce small dyadic values, for which f32 arithmetic is   *)
(* exact, so the rational result is the f32 result.  The one place where   *)
(* f32 rounding decides the behaviour, the iteration counter `i += 1.0`,   *)
(* is modelled with its rounding (FInc).                                   *)
(*                                                                         *)
(* exp, powf and the HSV construction cannot be computed over the          *)
(* integers: a color that went through them is kept as a symbolic term     *)
(* over its arguments.  Colors that only went through + * / (the set       *)
(* color) are numeric.                                                     *)
(***************************************************************************)
EXTENDS Integers, Sequences, FiniteSets, TLC

(***************************************************************************)
(* Bounds of the model                                                     *)
(***************************************************************************)
\* Largest rayon pool size explored (args.threads ranges over 1..MaxThreads).
MaxThreads == 2

\* Number of significand bits of the modelled float format.  f32 has 24; the
\* counter `i` stops growing at 2^MantissaBits, and a loop that runs that
\* long has to be followed pass by pass, so the format is scaled down.
MantissaBits == 4

(***************************************************************************)
(* Evaluation helpers.  TLC evaluates an operator argument again at every  *)
(* use of the parameter when it evaluates ENABLED (for the fairness        *)
(* conditions); App1..App3 evaluate the arguments once and apply Op to the *)
(* values.  App2(Op, a, b) is Op(a, b).                                    *)
(***************************************************************************)
App1(Op(_), a) == CHOOSE r \in {Op(u) : u \in {a}} : TRUE

App2(Op(_, _), a, b) == CHOOSE r \in {Op(u, v) : u \in {a}, v \in {b}} : TRUE

App3(Op(_, _, _), a, b, c) == CHOOSE r \in {Op(u, v, w) : u \in {a}, v \in {b}, w \in {c}} : TRUE

(***************************************************************************)
(* 32-bit signed integers (width, height, pixel index)                     *)
(***************************************************************************)
I32Max == 2147483647

I32Min == (-2147483647) - 1

\* a * b in i32 two's complement (wrapping_mul) for a, b >= 0.  With
\* a = a1 * 2^16 + a0 and b = b1 * 2^16 + b0, the low 32 bits of the product
\* are a0 * b0 + ((a1 * b0 + a0 * b1) mod 2^16) * 2^16 mod 2^32; they are
\* computed as two 16-bit halves so that no intermediate value needs more
\* than 31 bits.
WrapMul(a, b) ==
    App2(LAMBDA x, y :
           LET a0 == x % 65536
               a1 == x \div 65536
               b0 == y % 65536
               b1 == y \div 65536
               p0 == a0 * (b0 % 256)
               p1 == a0 * (b0 \div 256)
               low == (p0 % 65536) + (p1 % 256) * 256
               lo16 == low % 65536
               hi0 == (p0 \div 65536) + (p1 \div 256) + (low \div 65536)
               mid == ((a1 * b0) % 65536) + ((a0 * b1) % 65536)
               hi16 == (hi0 + mid) % 65536
           IN IF hi16 >= 32768 THEN (hi16 - 65536) * 65536 + lo16
              ELSE hi16 * 65536 + lo16,
         a, b)

\* Does a * b leave the i32 range (a, b > 0)?  A build with overflow checks
\* panics exactly then.
MulOverflows(a, b) == a > 0 /\ b > 0 /\ a > I32Max \div b

Abs(x) == IF x < 0 THEN -x ELSE x

Sign(x) == IF x < 0 THEN -1 ELSE IF x > 0 THEN 1 ELSE 0

\* Rust's i32 `/`: truncates toward zero.
TruncDiv(a, b) == Sign(a) * Sign(b) * (Abs(a) \div Abs(b))

\* Rust's i32 `%`: the remainder has the sign of the dividend.
TruncRem(a, b) == Sign(a) * (Abs(a) % Abs(b))

(***************************************************************************)
(* f32 as exact rationals                                                  *)
(***************************************************************************)
RECURSIVE Gcd(_, _)
Gcd(a, b) == App2(LAMBDA x, y : IF y = 0 THEN x ELSE Gcd(y, x % y), a, b)

\* The rational n/d in lowest terms with a positive denominator.
Norm(n, d) ==
    App2(LAMBDA x, y :
           IF y = 0 THEN [n |-> Sign(x), d |-> 0]
           ELSE App1(LAMBDA g : [n |-> (Sign(y) * x) \div g, d |-> Abs(y) \div g],
                     Gcd(Abs(x), Abs(y))),
         n, d)

F(k) == [n |-> k, d |-> 1]

Inf == [n |-> 1, d |-> 0]

NaN == [n |-> 0, d |-> 0]

IsNaN(a) == a.n = 0 /\ a.d = 0

FAdd(a, b) ==
    App2(LAMBDA x, y :
           IF x.d = 0 /\ y.d = 0 THEN (IF x.n = y.n THEN x ELSE NaN)
           ELSE Norm(x.n * y.d + y.n * x.d, x.d * y.d),
         a, b)

FNeg(a) == App1(LAMBDA x : [n |-> -x.n, d |-> x.d], a)

FSub(a, b) == FAdd(a, FNeg(b))

FMul(a, b) == App2(LAMBDA x, y : Norm(x.n * y.n, x.d * y.d), a, b)

FDiv(a, b) == App2(LAMBDA x, y : Norm(x.n * y.d * Sign(y.n), x.d * Abs(y.n)), a, b)

\* a < b; false when either side is NaN.
FLt(a, b) ==
    App2(LAMBDA x, y :
           IF IsNaN(x) \/ IsNaN(y) THEN FALSE
           ELSE IF x.d = 0 /\ y.d = 0 THEN x.n < y.n
           ELSE x.n * y.d < y.n * x.d,
         a, b)

\* `x as f32` for an i32 x that f32 represents exactly.
AsF32(x) == F(x)

\* The value from which `i += 1.0` no longer changes i: 2^MantissaBits + 1
\* is not representable and rounds back (ties to even).
FloatSat == 2 ^ MantissaBits

\* `i += 1.0` for the integer-valued float i.
FInc(i) == IF i >= FloatSat THEN i ELSE i + 1

(***************************************************************************)
(* Complex<f32>                                                            *)
(***************************************************************************)
Cx(re, im) == [re |-> re, im |-> im]

CxAdd(a, b) == App2(LAMBDA x, y : Cx(FAdd(x.re, y.re), FAdd(x.im, y.im)), a, b)

CxSub(a, b) == App2(LAMBDA x, y : Cx(FSub(x.re, y.re), FSub(x.im, y.im)), a, b)

CxMul(a, b) ==
    App2(LAMBDA x, y :
           Cx(FSub(FMul(x.re, y.re), FMul(x.im, y.im)),
              FAdd(FMul(x.re, y.im), FMul(x.im, y.re))),
         a, b)

\* fn abs: the squared magnitude.
abs(z) == App1(LAMBDA x : FAdd(FMul(x.re, x.re), FMul(x.im, x.im)), z)

\* fn normalize_coords.
normalize_coords(x, y, w, h, z) ==
    App2(LAMBDA nx, ny : Cx(FDiv(nx, z), FDiv(FMul(ny, FDiv(AsF32(h), AsF32(w))), z)),
         FSub(FMul(F(2), FDiv(AsF32(x), AsF32(w))), F(1)),
         FSub(FMul(F(2), FDiv(AsF32(y), AsF32(h))), F(1)))

(***************************************************************************)
(* RgbaF (mod rgbaf): four f32 channels.  A numeric color is               *)
(* [k |-> "num", v |-> <<r, g, b, a>>]; any other k is a symbolic term.    *)
(***************************************************************************)
CU == 64

Num(r, g, b, a) == [k |-> "num", v |-> <<r, g, b, a>>]

IsNum(col) == col.k = "num"

\* RgbaF::new(x): every channel x.
RgbaF_new(x) == Num(x, x, x, x)

\* RgbaF + RgbaF, channel by channel.
ColAdd(a, b) ==
    App2(LAMBDA x, y :
           IF IsNum(x) /\ IsNum(y)
           THEN [k |-> "num", v |-> [j \in 1..4 |-> FAdd(x.v[j], y.v[j])]]
           ELSE [k |-> "add", a |-> x, b |-> y],
         a, b)

\* RgbaF * RgbaF, channel by channel (alpha included).
ColMul(a, b) ==
    App2(LAMBDA x, y :
           IF IsNum(x) /\ IsNum(y)
           THEN [k |-> "num", v |-> [j \in 1..4 |-> FMul(x.v[j], y.v[j])]]
           ELSE [k |-> "mul", a |-> x, b |-> y],
         a, b)

\* RgbaF / f32.
ColDiv(a, x) ==
    App2(LAMBDA col, y :
           IF IsNum(col)
           THEN [k |-> "num", v |-> [j \in 1..4 |-> FDiv(col.v[j], y)]]
           ELSE [k |-> "div", a |-> col, x |-> y],
         a, x)

\* Largest r with r*r <= m.
ISqrt(m) == App1(LAMBDA x : CHOOSE r \in 0..x : r * r <= x /\ (r + 1) * (r + 1) > x, m)

IsSquare(m) == App1(LAMBDA r : r * r = m, ISqrt(m))

\* Largest r in 0..CU with r^5 <= m.
IRoot5(m) ==
    App1(LAMBDA x : CHOOSE r \in 0..CU :
                      r*r*r*r*r <= x /\ (r = CU \/ (r+1)*(r+1)*(r+1)*(r+1)*(r+1) > x),
         m)

\* f32::sqrt: exact when the value is the square of a rational, otherwise
\* rounded down to a multiple of 1/CU.
FSqrt(q) ==
    App1(LAMBDA x :
           IF IsNaN(x) \/ x.n < 0 THEN NaN
           ELSE IF x.d = 0 THEN x
           ELSE IF IsSquare(x.n) /\ IsSquare(x.d) THEN Norm(ISqrt(x.n), ISqrt(x.d))
           ELSE Norm(ISqrt((x.n * CU * CU) \div x.d), CU),
         q)

\* The sRGB transfer function, gamma-encoded value -> linear value, of one
\* channel in [0, 1]: v / 12.92 up to 0.04045, ((v + 0.055) / 1.055) ^ 2.4
\* above.  The power is computed in multiples of 1/CU as t^2 * (t^2)^(1/5).
GammaDecode(v) ==
    App1(LAMBDA x :
           IF ~ FLt(Norm(4045, 100000), x) THEN FDiv(x, Norm(1292, 100))
           ELSE App1(LAMBDA t :
                  App1(LAMBDA T :
                         App1(LAMBDA a : Norm(a * IRoot5(a * CU * CU * CU * CU), CU * CU),
                              (T * T) \div CU),
                       (t.n * CU) \div t.d),
                  FDiv(FAdd(x, Norm(55, 1000)), Norm(1055, 1000))),
         v)

\* RgbaF::to_RGB: sRGB -> linear on red, green, blue; alpha kept.
to_RGB(col) ==
    App1(LAMBDA x :
           IF IsNum(x)
           THEN Num(GammaDecode(x.v[1]), GammaDecode(x.v[2]), GammaDecode(x.v[3]), x.v[4])
           ELSE [k |-> "to_RGB", a |-> x],
         col)

\* RgbaF::to_sRGB: linear -> sRGB.  Only ever applied to the result of the
\* color function, which is symbolic.
to_sRGB(col) == [k |-> "to_sRGB", a |-> col]

\* `x as u16` for a float x: saturating, NaN becomes 0.
AsU16(q) ==
    App1(LAMBDA x :
           IF IsNaN(x) \/ x.n <= 0 THEN 0
           ELSE IF x.d = 0 \/ x.n \div x.d >= 65535 THEN 65535
           ELSE x.n \div x.d,
         q)

U16Max == 65535

(***************************************************************************)
(* The function set built in main                                          *)
(***************************************************************************)
\* iter_funct: |z, c| z * z + c.
iter_funct(z, c) == CxAdd(CxMul(z, z), c)

\* init_funct: |c| c.
init_funct(c) == c

\* cmap_funct: map_complex.
map_complex(z) == z

\* color_funct: coloring.  hue is a power of a power of an expression in s
\* and limit; i and z are not read.  from_hsv(hue, 0.5, 1.0, 1.0) with alpha
\* then set to 1.0.
coloring(i, s, z, limit, cexp) ==
    [k |-> "from_hsv", s |-> s, limit |-> limit, cexp |-> cexp]

(***************************************************************************)
(* Renderer::pixel, piece by piece                                         *)
(***************************************************************************)
\* The (x, y) that pixel(i) hands to normalize_coords: (i / height, i % height).
PixelCoord(i, height) == <<TruncDiv(i, height), TruncRem(i, height)>>

\* d: the complex-plane size of one pixel.
StepVec(a) ==
    CxSub(normalize_coords(1, 1, a.width, a.height, a.zoom),
          normalize_coords(0, 0, a.width, a.height, a.zoom))

\* c of one sample of pixel i, for the two draws r1, r2 of gen_range(-1.0..1.0).
SampleC(a, i, r1, r2) ==
    App3(LAMBDA xy, d, org :
           App1(LAMBDA c0 :
                  map_complex(Cx(FAdd(c0.re, FMul(d.re, FDiv(r1, a.sampled))),
                                 FAdd(c0.im, FMul(d.im, FDiv(r2, a.sampled))))),
                CxAdd(normalize_coords(xy[1], xy[2], a.width, a.height, a.zoom), org)),
         PixelCoord(i, a.height), StepVec(a), a.origin)

\* LoopCond with `abs(z) <= bail`: a sample already at bail still runs a pass.
LoopCond_BailLe(a, z, i) == ~ FLt(a.bail, abs(z)) /\ FLt(F(i), a.limit)

\* LoopCond with `i <= limit`: one pass too many.
LoopCond_Le(a, z, i) == FLt(abs(z), a.bail) /\ ~ FLt(a.limit, F(i))

\* The while condition: (abs(z) < bail) && i < limit.
LoopCond(a, z, i) == FLt(abs(z), a.bail) /\ FLt(F(i), a.limit)

\* s + exp(-abs(z)): the sum is kept as the list of the squared magnitudes
\* whose exponentials were added; like the counter, it stops absorbing terms
\* after FloatSat of them.
SmoothAdd(s, z) == App1(LAMBDA x : IF Len(x) >= FloatSat THEN x ELSE Append(x, abs(z)), s)

\* The branch after the loop: `if i < self.args.limit`.
Escaped(a, i) == FLt(F(i), a.limit)

\* The color of an escaped sample, gamma-encoded and squared.
MappedTerm(a, i, s, z) ==
    App1(LAMBDA color : ColMul(color, color),
         to_sRGB(coloring(i, s, z, a.limit, a.cexp)))

\* set_color * set_color.
SetTerm(a) == ColMul(a.set_color, a.set_color)

\* SampleTerm deciding by the magnitude instead of the count.
SampleTerm_ByBail(a, i, s, z) ==
    IF ~ FLt(abs(z), a.bail) THEN MappedTerm(a, i, s, z) ELSE SetTerm(a)

\* What one sample adds to `out`.
SampleTerm(a, i, s, z) ==
    IF Escaped(a, i) THEN MappedTerm(a, i, s, z) ELSE SetTerm(a)

\* The tail of pixel: out / samples, to_RGB, per channel sqrt * u16::MAX as u16.
Finish(a, out) ==
    App1(LAMBDA lin :
           IF IsNum(lin)
           THEN [k |-> "rgba16", v |-> [j \in 1..4 |-> AsU16(FMul(FSqrt(lin.v[j]), F(U16Max)))]]
           ELSE [k |-> "rgba16 of", a |-> lin],
         to_RGB(ColDiv(out, AsF32(a.samples))))

\* ThreadRng with one generator for the whole process.
ThreadRng_Global(w) == 1

\* rand::thread_rng(): the generator of the calling thread.
ThreadRng(w) == w

(***************************************************************************)
(* Renderer::render, piece by piece                                        *)
(***************************************************************************)
\* CellOf in row-first order.
CellOf_Swapped(i, height) == <<TruncRem(i, height), TruncDiv(i, height)>>

\* The raster cell of element i of the collected vector.
CellOf(i, height) == <<TruncDiv(i, height), TruncRem(i, height)>>

\* CollectSlot in arrival order.
CollectSlot_Arrival(i, done) == Len(done)

\* collect(): the position of pixel i's result in the vector, given the
\* indices done whose calls returned before it.
CollectSlot(i, done) == i

\* The elements of the Rust range 0..m (none when m <= 0).
Range(m) == IF m <= 0 THEN {} ELSE 0..(m - 1)

\* CollectReady as soon as every index is handed out.
CollectReady_NoJoin(left, busy) == left = {}

\* The map/collect has every result: nothing left to hand out, nobody busy.
CollectReady(left, busy) == left = {} /\ busy = {}

(***************************************************************************)
(* The configurations explored (Args as parsed by clap; threads is set in  *)
(* Init).  Every coordinate they produce is a small integer.               *)
(***************************************************************************)
Gray == Num(Norm(1, 2), Norm(1, 2), Norm(1, 2), F(1))

Black == Num(F(0), F(0), F(0), F(1))

White == Num(F(1), F(1), F(1), F(1))

\* The values gen_range(-1.0..1.0) is taken to return.
JitterDraws == {F(-1), F(0), Norm(1, 2)}

Cfg(w, h, o, zm, smp, spread, lim, bl, col) ==
    [width |-> w, height |-> h, threads |-> 1, origin |-> o, zoom |-> zm,
     samples |-> smp, sampled |-> spread, limit |-> lim, bail |-> bl,
     cexp |-> F(1), set_color |-> col]

Configs ==
    { \* 2x2 around 0: c = -2-2i, -2, -2i, 0
      Cfg(2, 2, Cx(F(0), F(0)), Norm(1, 2), 1, Inf, F(2), F(16), Gray),
      \* c = -2-2i, which passes bail on the pass that brings the count to limit
      Cfg(1, 1, Cx(F(-1), F(-1)), F(1), 1, Inf, F(1), F(16), Black),
      \* c = -2-2i and -2, both at or beyond bail from the start
      Cfg(1, 2, Cx(F(-1), F(0)), F(1), 1, Inf, F(3), F(4), White),
      \* several samples, no jitter: c = -2, 0
      Cfg(2, 1, Cx(F(0), F(1)), Norm(1, 2), 3, Inf, F(2), F(16), Gray),
      \* jitter
      Cfg(1, 2, Cx(F(0), F(0)), F(1), 1, F(1), F(2), F(16), Black),
      Cfg(1, 1, Cx(F(0), F(0)), F(1), 2, F(1), F(2), F(16), Gray),
      \* c = 0 with a limit that is not an integer, that is infinite, and that
      \* is finite but beyond the point where the counter stops
      Cfg(1, 1, Cx(F(1), F(1)), F(1), 1, Inf, Norm(5, 2), F(16), Gray),
      Cfg(1, 1, Cx(F(1), F(1)), F(1), 1, Inf, Inf, F(16), Black),
      Cfg(1, 1, Cx(F(1), F(1)), F(1), 1, Inf, F(FloatSat + 2), F(16), Black),
      \* width * height = 2^31 and 2^32
      Cfg(65536, 32768, Cx(F(0), F(0)), F(1), 1, Inf, F(2), F(16), Black),
      Cfg(1073741824, 4, Cx(F(0), F(0)), F(1), 1, Inf, F(2), F(16), Black) }

(***************************************************************************)
(* State                                                                   *)
(***************************************************************************)
VARIABLES
    args,       \* Renderer.args (with width and height)
    mainpc,     \* where main is: "main", "par", "scatter", "returned", "saved", "panicked"
    n,          \* the end of the range 0..(width * height)
    todo,       \* indices of the range no worker has taken yet
    frame,      \* per pool thread: the locals of the pixel call it is in
    collected,  \* the vector `out` being collected: position -> Rgba<u16>
    fin,        \* the pixel indices in the order their calls returned
    rng,        \* per generator: the <<thread, pixel>> pairs that drew from it
    coords,     \* per pixel index: the (x, y) pixel() mapped it to
    evals,      \* per pixel index: (i, s, z) at the loop exit of each of its samples
    k,          \* the position of the scatter loop
    output,     \* the raster: cell -> Rgba<u16>, for the cells written so far
    prov,       \* per raster cell: the vector positions written into it, in order
    dropped,    \* the positions the row check skipped
    sink        \* what output.save received

vars == <<args, mainpc, n, todo, frame, collected, fin, rng, coords, evals, k, output, prov, dropped, sink>>

Threads == 1..args.threads

Zero == Cx(F(0), F(0))

IdleFrame ==
    [pc |-> "idle", idx |-> -1, g |-> 0, smp |-> 0, out |-> RgbaF_new(F(0)),
     c |-> Zero, z |-> Zero, i |-> 0, s |-> <<>>, exits |-> <<>>]

Busy == {w \in Threads : frame[w].pc # "idle"}

Init ==
    /\ \E cfg \in Configs, t \in 1..MaxThreads : args = [cfg EXCEPT !.threads = t]
    /\ mainpc = "main"
    /\ n = 0
    /\ todo = {}
    /\ frame = [w \in 1..MaxThreads |-> IdleFrame]
    /\ collected = <<>>
    /\ fin = <<>>
    /\ rng = [g \in 1..MaxThreads |-> {}]
    /\ coords = <<>>
    /\ evals = <<>>
    /\ k = 0
    /\ output = <<>>
    /\ prov = <<>>
    /\ dropped = {}
    /\ sink = <<>>

(***************************************************************************)
(* main and Renderer::render                                               *)
(***************************************************************************)
\* render up to the parallel map: the raster is allocated zeroed and the
\* range 0..(width * height) is handed to the pool.  The product wraps in a
\* build without overflow checks.
RenderStart ==
    /\ mainpc = "main"
    /\ n' = WrapMul(args.width, args.height)
    /\ todo' = Range(n')
    /\ mainpc' = "par"
    /\ UNCHANGED <<args, frame, collected, fin, rng, coords, evals, k, output, prov, dropped, sink>>

\* The same in a build with overflow checks when the product overflows:
\* the multiplication panics.
RenderPanic ==
    /\ mainpc = "main"
    /\ MulOverflows(args.width, args.height)
    /\ mainpc' = "panicked"
    /\ UNCHANGED <<args, n, todo, frame, collected, fin, rng, coords, evals, k, output, prov, dropped, sink>>

\* collect() returns once every pixel call has returned.
Collect ==
    /\ mainpc = "par"
    /\ CollectReady(todo, Busy)
    /\ mainpc' = "scatter"
    /\ k' = 0
    /\ UNCHANGED <<args, n, todo, frame, collected, fin, rng, coords, evals, output, prov, dropped, sink>>

\* One pass of `for (i, e) in out.iter().enumerate()`.
ScatterStep ==
    /\ mainpc = "scatter"
    /\ k \in DOMAIN collected
    /\ LET xy == CellOf(k, args.height)
       IN IF xy[2] < args.height
          THEN /\ mainpc' = IF xy[1] < args.width THEN "scatter" ELSE "panicked"
               /\ output' = IF xy[1] < args.width
                            THEN [cell \in DOMAIN output \cup {xy} |->
                                    IF cell = xy THEN collected[k] ELSE output[cell]]
                            ELSE output
               /\ prov' = IF xy[1] < args.width
                          THEN [cell \in DOMAIN prov \cup {xy} |->
                                  IF cell = xy
                                  THEN (IF xy \in DOMAIN prov THEN Append(prov[xy], k) ELSE <<k>>)
                                  ELSE prov[cell]]
                          ELSE prov
               /\ UNCHANGED dropped
          ELSE /\ dropped' = dropped \cup {k}
               /\ UNCHANGED <<mainpc, output, prov>>
    /\ k' = k + 1
    /\ UNCHANGED <<args, n, todo, frame, collected, fin, rng, coords, evals, sink>>

\* The scatter loop is over: render returns the raster.
Return ==
    /\ mainpc = "scatter"
    /\ k \notin DOMAIN collected
    /\ mainpc' = "returned"
    /\ UNCHANGED <<args, n, todo, frame, collected, fin, rng, coords, evals, k, output, prov, dropped, sink>>

\* main: output.save(&name).
Save ==
    /\ mainpc = "returned"
    /\ sink' = output
    /\ mainpc' = "saved"
    /\ UNCHANGED <<args, n, todo, frame, collected, fin, rng, coords, evals, k, output, prov, dropped>>

(***************************************************************************)
(* A pool thread running Renderer::pixel                                   *)
(***************************************************************************)
\* The thread takes an index of the range and enters pixel(i): out is
\* zeroed and rng is the thread's generator.
Take(w) ==
    /\ w \in Threads
    /\ mainpc = "par"
    /\ frame[w].pc = "idle"
    /\ \E i \in todo :
         /\ todo' = todo \ {i}
         /\ frame' = [frame EXCEPT ![w] =
                [IdleFrame EXCEPT !.pc = "sample", !.idx = i, !.g = ThreadRng(w)]]
         /\ coords' = [j \in DOMAIN coords \cup {i} |->
                         IF j = i THEN PixelCoord(i, args.height) ELSE coords[j]]
    /\ UNCHANGED <<args, mainpc, n, collected, fin, rng, evals, k, output, prov, dropped, sink>>

\* The head of one pass of `for _ in 0..samples`: c from the coordinates and
\* two draws, z = init(c), i = 0, s = 0.
SampleBegin(w) ==
    /\ w \in Threads
    /\ frame[w].pc = "sample"
    /\ frame[w].smp < args.samples
    /\ \E r1, r2 \in JitterDraws :
         LET c == SampleC(args, frame[w].idx, r1, r2)
         IN frame' = [frame EXCEPT ![w] =
                [@ EXCEPT !.pc = "loop", !.c = c, !.z = init_funct(c), !.i = 0, !.s = <<>>]]
    /\ rng' = [rng EXCEPT ![frame[w].g] = @ \cup {<<w, frame[w].idx>>}]
    /\ UNCHANGED <<args, mainpc, n, todo, collected, fin, coords, evals, k, output, prov, dropped, sink>>

\* One pass of the while loop.
LoopPass(w) ==
    /\ w \in Threads
    /\ frame[w].pc = "loop"
    /\ LoopCond(args, frame[w].z, frame[w].i)
    /\ LET z == iter_funct(frame[w].z, frame[w].c)
       IN frame' = [frame EXCEPT ![w] =
              [@ EXCEPT !.z = z, !.i = FInc(frame[w].i), !.s = SmoothAdd(frame[w].s, z)]]
    /\ UNCHANGED <<args, mainpc, n, todo, collected, fin, rng, coords, evals, k, output, prov, dropped, sink>>

\* The while condition fails.
LoopExit(w) ==
    /\ w \in Threads
    /\ frame[w].pc = "loop"
    /\ ~ LoopCond(args, frame[w].z, frame[w].i)
    /\ frame' = [frame EXCEPT ![w] = [@ EXCEPT !.pc = "exit"]]
    /\ UNCHANGED <<args, mainpc, n, todo, collected, fin, rng, coords, evals, k, output, prov, dropped, sink>>

\* The rest of the pass: the sample's term is added to out.
Accumulate(w) ==
    /\ w \in Threads
    /\ frame[w].pc = "exit"
    /\ frame' = [frame EXCEPT ![w] =
           [@ EXCEPT !.pc = "sample", !.smp = @ + 1,
                     !.out = ColAdd(@, SampleTerm(args, frame[w].i, frame[w].s, frame[w].z)),
                     !.exits = Append(@, [i |-> frame[w].i, s |-> frame[w].s, z |-> frame[w].z])]]
    /\ UNCHANGED <<args, mainpc, n, todo, collected, fin, rng, coords, evals, k, output, prov, dropped, sink>>

\* The samples are done: pixel returns and its result takes its place in
\* the collected vector.
PixelDone(w) ==
    /\ w \in Threads
    /\ frame[w].pc = "sample"
    /\ frame[w].smp >= args.samples
    /\ LET slot == CollectSlot(frame[w].idx, fin)
           px == Finish(args, frame[w].out)
       IN collected' = [j \in DOMAIN collected \cup {slot} |->
                          IF j = slot THEN px ELSE collected[j]]
    /\ fin' = Append(fin, frame[w].idx)
    /\ evals' = [j \in DOMAIN evals \cup {frame[w].idx} |->
                   IF j = frame[w].idx THEN frame[w].exits ELSE evals[j]]
    /\ frame' = [frame EXCEPT ![w] = IdleFrame]
    /\ UNCHANGED <<args, mainpc, n, todo, rng, coords, k, output, prov, dropped, sink>>

Worker(w) ==
    \/ Take(w)
    \/ SampleBegin(w)
    \/ LoopPass(w)
    \/ LoopExit(w)
    \/ Accumulate(w)
    \/ PixelDone(w)

Main ==
    \/ RenderStart
    \/ RenderPanic
    \/ Collect
    \/ ScatterStep
    \/ Return
    \/ Save

\* The pool has args.threads threads (every Worker action checks w \in Threads).
Next == Main \/ \E w \in 1..MaxThreads : Worker(w)

Spec == Init /\ [][Next]_vars

\* Every pool thread and main keep running while they have something to do.
FairSpec == Spec /\ WF_vars(Main) /\ \A w \in 1..MaxThreads : WF_vars(Worker(w))

TypeOK ==
    /\ mainpc \in {"main", "par", "scatter", "returned", "saved", "panicked"}
    /\ \A w \in 1..MaxThreads : frame[w].pc \in {"idle", "sample", "loop", "exit"}
    /\ todo \subseteq Range(n)

(***************************************************************************)
(* Properties                                                              *)
(***************************************************************************)
Completed == mainpc \in {"returned", "saved"}

JitterOff == args.sampled = Inf

RECURSIVE RefLoop(_, _, _, _, _)
\* The escape loop of one sample run to its exit, on one thread.
RefLoop(a, c, z, i, s) ==
    IF LoopCond(a, z, i)
    THEN LET z1 == iter_funct(z, c) IN RefLoop(a, c, z1, FInc(i), SmoothAdd(s, z1))
    ELSE [i |-> i, s |-> s, z |-> z]

RECURSIVE RefSum(_, _, _)
\* out after m samples of pixel idx without jitter.
RefSum(a, idx, m) ==
    IF m = 0 THEN RgbaF_new(F(0))
    ELSE LET c == SampleC(a, idx, F(0), F(0))
             e == RefLoop(a, c, init_funct(c), 0, <<>>)
         IN ColAdd(RefSum(a, idx, m - 1), SampleTerm(a, e.i, e.s, e.z))

\* pixel(idx) without jitter, run alone.
RefPixel(a, idx) == Finish(a, RefSum(a, idx, a.samples))

\* C1: with jitter disabled, whatever the pool size and the order in which
\* the threads take and finish pixels, the raster a completed render returns
\* holds at each cell (col, row) it wrote what pixel(col * height + row)
\* computes when run alone, and it wrote the cell of every index of the range.
C1_SameRaster ==
    (Completed /\ JitterOff) =>
        /\ DOMAIN output = {CellOf(i, args.height) : i \in Range(n)}
        /\ \A cell \in DOMAIN output :
              output[cell] = RefPixel(args, cell[1] * args.height + cell[2])

\* C1 witness: a completed two-thread render of four pixels without jitter
\* whose pixel calls returned out of index order.
C1_Witness ==
    /\ Completed /\ JitterOff /\ args.threads = 2
    /\ Cardinality(DOMAIN output) = 4
    /\ \E j \in 1..(Len(fin) - 1) : fin[j] > fin[j + 1]

\* C2: a render of a width > 0, height > 0 configuration that completes has
\* computed every index, dropped none, and written each of the width * height
\* cells exactly once.
C2_FullRaster ==
    (Completed /\ args.width > 0 /\ args.height > 0) =>
        /\ dropped = {}
        /\ Cardinality(DOMAIN output) % args.height = 0
        /\ Cardinality(DOMAIN output) \div args.height = args.width
        /\ \A cell \in DOMAIN prov : Len(prov[cell]) = 1

\* C3: every index i that pixel() decomposed into (col, row) satisfies
\* col * height + row = i, and the cell render() writes element i to is the
\* (col, row) pixel() used for i.
C3_RoundTrip ==
    /\ \A i \in DOMAIN coords : coords[i][1] * args.height + coords[i][2] = i
    /\ \A cell \in DOMAIN prov :
          \A j \in 1..Len(prov[cell]) : coords[prov[cell][j]] = cell

\* C3 witness: a completed 2x2 render, whose cell (1, 1) was written from
\* element 3.
C3_Witness ==
    /\ Completed
    /\ <<1, 1>> \in DOMAIN prov
    /\ prov[<<1, 1>>] = <<3>>
    /\ coords[3] = <<1, 1>>

\* The 16-bit pixel that is the square root of the squared set color.
SetColorPixel(a) ==
    [k |-> "rgba16",
     v |-> [j \in 1..4 |-> AsU16(FMul(FSqrt(FMul(a.set_color.v[j], a.set_color.v[j])), F(U16Max)))]]

\* C4: in a single-sample render without jitter, a pixel whose iteration
\* count reached the limit is exactly sqrt(set_color^2) scaled to 16 bits.
C4_SetColorExact ==
    (args.samples = 1 /\ JitterOff) =>
        \A j \in DOMAIN collected :
            ~ Escaped(args, evals[j][1].i) => collected[j] = SetColorPixel(args)

\* C5 as stated: for c = 0 the count at loop exit equals limit and the sample
\* is in the set.
C5_CountIsLimit ==
    \A w \in Threads :
        (frame[w].pc = "exit" /\ frame[w].c = Zero) =>
            /\ F(frame[w].i) = args.limit
            /\ ~ Escaped(args, frame[w].i)

\* C5 amended: for c = 0, z is 0 at loop exit, the count at loop exit is the
\* least whole number that is not below limit (limit itself when limit is
\* whole), and the sample is in the set.
C5_CountIsCeilLimit ==
    \A w \in Threads :
        (frame[w].pc = "exit" /\ frame[w].c = Zero) =>
            /\ frame[w].z = Zero
            /\ ~ FLt(F(frame[w].i), args.limit)
            /\ FLt(F(frame[w].i - 1), args.limit)
            /\ ~ Escaped(args, frame[w].i)

\* C5 witness: the loop of a c = 0 sample has exited at count 3 under limit 2.5.
C5_Witness ==
    \E w \in Threads :
        /\ frame[w].pc = "exit" /\ frame[w].c = Zero
        /\ args.limit = Norm(5, 2)
        /\ frame[w].i = 3

\* C6: a sample whose init(c) already has squared magnitude >= bail leaves
\* the loop with count 0 and smoothing sum 0, and is classified as escaped.
C6_NoPass ==
    \A w \in Threads :
        (frame[w].pc = "exit" /\ ~ FLt(abs(init_funct(frame[w].c)), args.bail)) =>
            /\ frame[w].i = 0
            /\ frame[w].s = <<>>
            /\ Escaped(args, frame[w].i)

\* C6 witness: a sample with |c|^2 = 8 >= bail = 4 has left the loop.
C6_Witness ==
    \E w \in Threads :
        /\ frame[w].pc = "exit"
        /\ abs(init_funct(frame[w].c)) = F(8)
        /\ args.bail = F(4)

\* C7: every render ends: it returns (and is saved) or the process aborts.
C7_Terminates == <>(mainpc \in {"returned", "saved", "panicked"})

RECURSIVE TermSum(_, _, _)
\* out after the first m recorded loop exits: one term each, the mapped
\* color when the exit count is below limit, the squared set color otherwise.
TermSum(a, exits, m) ==
    IF m = 0 THEN RgbaF_new(F(0))
    ELSE ColAdd(TermSum(a, exits, m - 1),
                IF FLt(F(exits[m].i), a.limit)
                THEN MappedTerm(a, exits[m].i, exits[m].s, exits[m].z)
                ELSE SetTerm(a))

\* C8: in every pixel call, out is the sum of exactly one term per finished
\* sample: the squared gamma-encoded mapped color if the sample's count was
\* below limit at loop exit, the squared set color otherwise (also when the
\* magnitude reached bail on the pass that brought the count to limit).
C8_OneTermPerSample ==
    \A w \in Threads :
        frame[w].pc # "idle" =>
            /\ Len(frame[w].exits) = frame[w].smp
            /\ frame[w].out = TermSum(args, frame[w].exits, frame[w].smp)

\* C8 witness: a sample left the loop with the count at limit and the
\* magnitude at or above bail, and out is the squared set color.
C8_Witness ==
    \E w \in Threads :
        /\ frame[w].smp = 1 /\ Len(frame[w].exits) = 1
        /\ ~ FLt(F(frame[w].exits[1].i), args.limit)
        /\ ~ FLt(abs(frame[w].exits[1].z), args.bail)
        /\ frame[w].out = ColAdd(RgbaF_new(F(0)), SetTerm(args))

\* C9: a raster cell is written only when every index of the range has been
\* taken, every pixel call has returned and the vector is complete; the sink
\* receives the raster only after the scatter loop has passed every element.
C9_Barrier ==
    /\ (DOMAIN output # {} \/ mainpc \in {"scatter", "returned", "saved"}) =>
          /\ todo = {}
          /\ Busy = {}
          /\ DOMAIN collected = Range(n)
    /\ (sink # <<>> \/ mainpc = "saved") =>
          /\ \A i \in Range(n) : i < k
          /\ sink = output

\* C9 witness: a two-thread render of four pixels has been saved.
C9_Witness ==
    /\ mainpc = "saved" /\ args.threads = 2
    /\ Cardinality(DOMAIN sink) = 4

\* C10 as stated: no generator is drawn from by two threads, and none by two
\* pixel computations.
C10_PerPixelRng ==
    \A g \in DOMAIN rng : \A p, q \in rng[g] : p[1] = q[1] /\ p[2] = q[2]

\* C10 amended: each pool thread owns its generator: no generator is drawn
\* from by two threads, and the pixel computations that draw from one
\* generator are those its thread runs, one after the other.
C10_PerThreadRng ==
    /\ \A g \in DOMAIN rng : \A p, q \in rng[g] : p[1] = q[1]
    /\ \A w \in Threads : frame[w].pc # "idle" =>
          \A v \in Threads : (v # w /\ frame[v].pc # "idle") => frame[v].g # frame[w].g

\* C10 witness: two threads are inside pixel calls, and one of them has
\* already drawn for an earlier pixel from the generator it draws from now.
C10_Witness ==
    \E w, v \in Threads :
        /\ w # v /\ frame[w].pc = "loop" /\ frame[v].pc = "loop"
        /\ \E p \in rng[frame[w].g] : p[2] # frame[w].idx

====
